---- MODULE Spec2Model ----
(***************************************************************************)
(* Model of remotestorage/uploader.go: GoogleCloudStorage.UploadFile and   *)
(* GoogleCloudStorage.UploadDir.  One call is modelled per behaviour: its  *)
(* arguments are drawn in Init, the answers of the storage backend and of  *)
(* the filesystem are drawn where the code asks for them.                  *)
(***************************************************************************)
EXTENDS Integers, Sequences, FiniteSets, TLC

VARIABLES mode, g, contentType, fsrc, fdst,
          pc, ret, admin, client, bucketErr, walked, fmap,
          fate, tpc, sig, cnt, nrecv, log

vars == <<mode, g, contentType, fsrc, fdst, pc, ret, admin, client, bucketErr,
          walked, fmap, fate, tpc, sig, cnt, nrecv, log>>

args == <<mode, g, contentType, fsrc, fdst>>

\* ------------------------------------------------------------------ bounds
MaxFiles == 2

Sources == 1..MaxFiles

\* ------------------------------------------------------------- data values
RelKey(s) == [rel |-> s]

NoKey == [rel |-> 0]

Keys == {RelKey(s) : s \in Sources}

ContentTypes == {"", "text/plain"}

Err(kind, msg, file) == [kind |-> kind, msg |-> msg, file |-> file]

Nil == Err("nil", <<>>, 0)

\* CreateBucket has not answered yet
NotCalled == Err("none", <<>>, 0)

ErrNilReceiver == Err("fmt", <<"GoogleCloudStorage is nil">>, 0)

ErrAdminClient == Err("auth", <<"dialing:", "bad credentials">>, 0)

ErrStorageClient == Err("auth", <<"dialing:", "no token source">>, 0)

ErrWalk == Err("fs", <<"walk:", "permission denied">>, 0)

AlreadyOwnedText == <<"You already own this bucket.", "Please select another name">>

ErrAlreadyOwned ==
    Err("googleapi", <<"googleapi: Error 409:", "You already own this bucket.",
                       "Please select another name", ", conflict">>, 0)

ErrNameTaken ==
    Err("googleapi", <<"googleapi: Error 409:", "Sorry, that name is not available.",
                       "Please select another name", ", conflict">>, 0)

ErrForbidden == Err("googleapi", <<"googleapi: Error 403:", "Forbidden">>, 0)

CreateBucketResults == {Nil, ErrAlreadyOwned, ErrNameTaken, ErrForbidden}

\* strings.Contains over a message cut into pieces
Contains(s, sub) ==
    \E i \in 1..(Len(s) + 1) :
        /\ i + Len(sub) - 1 <= Len(s)
        /\ SubSeq(s, i, i + Len(sub) - 1) = sub

\* variants of the test on the create-bucket error
IsAlreadyOwned_tail(e) == \E i \in 1..Len(e.msg) : e.msg[i] = AlreadyOwnedText[2]

IsAlreadyOwned_exact(e) == e.msg = AlreadyOwnedText

\* !strings.Contains(err.Error(), "You already own this bucket. Please select another name")

IsAlreadyOwned(e) == Contains(e.msg, AlreadyOwnedText)

\* the step at which an upload fails, "ok" when none does
Fates == {"ok", "read", "write", "close"}

StepErr(step, s) == Err(step, <<step, "failed">>, s)

\* walkRecursive: every regular file under the root, keyed by relative path
WalkResults == {[s \in S |-> RelKey(s)] : S \in SUBSET Sources}

EmptyMap == [s \in {} |-> NoKey]

Ev(op, key, ok) == [op |-> op, key |-> key, ok |-> ok]

\* wc := ...NewWriter(ctx); if ret.ContentType != "" { wc.ContentType = ... }
OpenEvents_always(key) == <<Ev("open", key, TRUE), Ev("ct", key, TRUE)>>

OpenEvents(key) ==
    <<Ev("open", key, TRUE)>> \o (IF contentType # "" THEN <<Ev("ct", key, TRUE)>> ELSE <<>>)

\* ------------------------------------------------------------------- Init
Init ==
    /\ mode \in {"file", "dir"}
    /\ g \in {"nil", "ok"}
    /\ contentType \in ContentTypes
    /\ fsrc \in Sources
    /\ fdst \in Keys
    /\ mode = "dir" => (fsrc = 1 /\ fdst = RelKey(1))
    /\ pc = "entry"
    /\ ret = Nil
    /\ admin = "none"
    /\ client = "none"
    /\ bucketErr = NotCalled
    /\ walked = "none"
    /\ fmap = EmptyMap
    /\ fate = [s \in Sources |-> "ok"]
    /\ tpc = [s \in Sources |-> "idle"]
    /\ sig = [s \in Sources |-> "none"]
    /\ cnt = 0
    /\ nrecv = 0
    /\ log = [s \in Sources |-> <<>>]

\* return e, running the deferred admin.Close() and client.Close()
Return(e) ==
    /\ pc' = "returned"
    /\ ret' = e
    /\ admin' = IF admin = "open" THEN "closed" ELSE admin
    /\ client' = IF client = "open" THEN "closed" ELSE client

Goto(l) ==
    /\ pc' = l
    /\ UNCHANGED <<ret, admin, client>>

\* ------------------------------------------------------------- UploadFile
UF_Entry ==
    /\ mode = "file" /\ pc = "entry"
    /\ IF g = "nil" THEN Return(ErrNilReceiver) ELSE Goto("newAdmin")
    /\ UNCHANGED <<args, bucketErr, walked, fmap, fate, tpc, sig, cnt, nrecv, log>>

UF_NewAdminClient ==
    /\ mode = "file" /\ pc = "newAdmin"
    /\ \E e \in {Nil, ErrAdminClient} :
          IF e # Nil
          THEN Return(e)
          ELSE /\ pc' = "createBucket"
               /\ admin' = "open"
               /\ UNCHANGED <<ret, client>>
    /\ UNCHANGED <<args, bucketErr, walked, fmap, fate, tpc, sig, cnt, nrecv, log>>

UF_CreateBucket ==
    /\ mode = "file" /\ pc = "createBucket"
    /\ \E e \in CreateBucketResults :
          /\ bucketErr' = e
          /\ IF e # Nil /\ ~IsAlreadyOwned(e)
             THEN Return(e)
             ELSE Goto("newClient")
    /\ UNCHANGED <<args, walked, fmap, fate, tpc, sig, cnt, nrecv, log>>

UF_NewClient ==
    /\ mode = "file" /\ pc = "newClient"
    /\ \E e \in {Nil, ErrStorageClient} :
          IF e # Nil
          THEN Return(e)
          ELSE /\ pc' = "newWriter"
               /\ client' = "open"
               /\ UNCHANGED <<ret, admin>>
    /\ UNCHANGED <<args, bucketErr, walked, fmap, fate, tpc, sig, cnt, nrecv, log>>

UF_NewWriter ==
    /\ mode = "file" /\ pc = "newWriter"
    /\ log' = [log EXCEPT ![fsrc] = @ \o OpenEvents(fdst)]
    /\ Goto("read")
    /\ UNCHANGED <<args, bucketErr, walked, fmap, fate, tpc, sig, cnt, nrecv>>

\* variant: bts, _ := ioutil.ReadFile(src)
UF_ReadFile_ignore ==
    /\ mode = "file" /\ pc = "read"
    /\ \E e \in {Nil, StepErr("read", fsrc)} :
          /\ log' = [log EXCEPT ![fsrc] = Append(@, Ev("read", NoKey, e = Nil))]
          /\ Goto("write")
    /\ UNCHANGED <<args, bucketErr, walked, fmap, fate, tpc, sig, cnt, nrecv>>

UF_ReadFile ==
    /\ mode = "file" /\ pc = "read"
    /\ \E e \in {Nil, StepErr("read", fsrc)} :
          /\ log' = [log EXCEPT ![fsrc] = Append(@, Ev("read", NoKey, e = Nil))]
          /\ IF e # Nil THEN Return(e) ELSE Goto("write")
    /\ UNCHANGED <<args, bucketErr, walked, fmap, fate, tpc, sig, cnt, nrecv>>

UF_Write ==
    /\ mode = "file" /\ pc = "write"
    /\ \E e \in {Nil, StepErr("write", fsrc)} :
          /\ log' = [log EXCEPT ![fsrc] = Append(@, Ev("write", fdst, e = Nil))]
          /\ IF e # Nil THEN Return(e) ELSE Goto("close")
    /\ UNCHANGED <<args, bucketErr, walked, fmap, fate, tpc, sig, cnt, nrecv>>

UF_Close ==
    /\ mode = "file" /\ pc = "close"
    /\ \E e \in {Nil, StepErr("close", fsrc)} :
          /\ log' = [log EXCEPT ![fsrc] = Append(@, Ev("close", fdst, e = Nil))]
          /\ IF e # Nil THEN Return(e) ELSE Return(Nil)
    /\ UNCHANGED <<args, bucketErr, walked, fmap, fate, tpc, sig, cnt, nrecv>>

UploadFile ==
    \/ UF_Entry
    \/ UF_NewAdminClient
    \/ UF_CreateBucket
    \/ UF_NewClient
    \/ UF_NewWriter
    \/ UF_ReadFile
    \/ UF_Write
    \/ UF_Close

\* -------------------------------------------------------------- UploadDir
num == Cardinality(DOMAIN fmap)

\* variant: the goroutine reads the loop variable instead of its parameter
TaskDst_captured(s) == fmap[CHOOSE x \in DOMAIN fmap : \A y \in DOMAIN fmap : y <= x]

\* the (src, dst) pair handed to the goroutine of one map entry
TaskDst(s) == fmap[s]

TaskErr(s) == StepErr(fate[s], s)

UD_Entry ==
    /\ mode = "dir" /\ pc = "entry"
    /\ IF g = "nil" THEN Return(ErrNilReceiver) ELSE Goto("newAdmin")
    /\ UNCHANGED <<args, bucketErr, walked, fmap, fate, tpc, sig, cnt, nrecv, log>>

UD_NewAdminClient ==
    /\ mode = "dir" /\ pc = "newAdmin"
    /\ \E e \in {Nil, ErrAdminClient} :
          IF e # Nil
          THEN Return(e)
          ELSE /\ pc' = "createBucket"
               /\ admin' = "open"
               /\ UNCHANGED <<ret, client>>
    /\ UNCHANGED <<args, bucketErr, walked, fmap, fate, tpc, sig, cnt, nrecv, log>>

\* variant: the result of CreateBucket is not looked at
UD_CreateBucket_ignore ==
    /\ mode = "dir" /\ pc = "createBucket"
    /\ \E e \in CreateBucketResults :
          /\ bucketErr' = e
          /\ Goto("newClient")
    /\ UNCHANGED <<args, walked, fmap, fate, tpc, sig, cnt, nrecv, log>>

UD_CreateBucket ==
    /\ mode = "dir" /\ pc = "createBucket"
    /\ \E e \in CreateBucketResults :
          /\ bucketErr' = e
          /\ IF e # Nil /\ ~IsAlreadyOwned(e)
             THEN Return(e)
             ELSE Goto("newClient")
    /\ UNCHANGED <<args, walked, fmap, fate, tpc, sig, cnt, nrecv, log>>

UD_NewClient ==
    /\ mode = "dir" /\ pc = "newClient"
    /\ \E e \in {Nil, ErrStorageClient} :
          IF e # Nil
          THEN Return(e)
          ELSE /\ pc' = "walk"
               /\ client' = "open"
               /\ UNCHANGED <<ret, admin>>
    /\ UNCHANGED <<args, bucketErr, walked, fmap, fate, tpc, sig, cnt, nrecv, log>>

\* variant: fmap, _ := walkRecursive(src)
UD_Walk_ignore ==
    /\ mode = "dir" /\ pc = "walk"
    /\ \E m \in WalkResults :
          /\ fmap' = m
          /\ walked' \in {"ok", "err"}
          /\ Goto("spawn")
    /\ UNCHANGED <<args, bucketErr, fate, tpc, sig, cnt, nrecv, log>>

UD_Walk ==
    /\ mode = "dir" /\ pc = "walk"
    /\ \/ /\ Return(ErrWalk)
          /\ walked' = "err"
          /\ UNCHANGED fmap
       \/ \E m \in WalkResults :
             /\ fmap' = m
             /\ walked' = "ok"
             /\ Goto("spawn")
    /\ UNCHANGED <<args, bucketErr, fate, tpc, sig, cnt, nrecv, log>>

\* one iteration of "for source, destination := range fmap { go func ... }";
\* the iteration order of a Go map is unspecified
\* variant: a new goroutine is started only when no other one is at work
UD_Spawn_throttled(s) ==
    /\ mode = "dir" /\ pc = "spawn"
    /\ s \in DOMAIN fmap /\ tpc[s] = "idle"
    /\ \A t \in DOMAIN fmap : tpc[t] \notin {"newWriter", "read", "write", "close"}
    /\ tpc' = [tpc EXCEPT ![s] = "newWriter"]
    /\ \E ft \in Fates : fate' = [fate EXCEPT ![s] = ft]
    /\ Goto("spawn")
    /\ UNCHANGED <<args, bucketErr, walked, fmap, sig, cnt, nrecv, log>>

UD_Spawn(s) ==
    /\ mode = "dir" /\ pc = "spawn"
    /\ s \in DOMAIN fmap /\ tpc[s] = "idle"
    /\ tpc' = [tpc EXCEPT ![s] = "newWriter"]
    /\ \E ft \in Fates : fate' = [fate EXCEPT ![s] = ft]
    /\ Goto("spawn")
    /\ UNCHANGED <<args, bucketErr, walked, fmap, sig, cnt, nrecv, log>>

\* range exhausted: cnt, num := 0, len(fmap)
UD_SpawnDone ==
    /\ mode = "dir" /\ pc = "spawn"
    /\ \A s \in DOMAIN fmap : tpc[s] # "idle"
    /\ cnt' = 0
    /\ Goto("loopTest")
    /\ UNCHANGED <<args, bucketErr, walked, fmap, fate, tpc, sig, nrecv, log>>

\* variant: the select runs before the first test
UD_LoopTest_post ==
    /\ mode = "dir" /\ pc = "loopTest"
    /\ IF cnt # num \/ nrecv = 0 THEN Goto("select") ELSE Return(Nil)
    /\ UNCHANGED <<args, bucketErr, walked, fmap, fate, tpc, sig, cnt, nrecv, log>>

\* variant: for cnt < num-1
UD_LoopTest_short ==
    /\ mode = "dir" /\ pc = "loopTest"
    /\ IF cnt < num - 1 THEN Goto("select") ELSE Return(Nil)
    /\ UNCHANGED <<args, bucketErr, walked, fmap, fate, tpc, sig, cnt, nrecv, log>>

\* for cnt != num
UD_LoopTest ==
    /\ mode = "dir" /\ pc = "loopTest"
    /\ IF cnt # num THEN Goto("select") ELSE Return(Nil)
    /\ UNCHANGED <<args, bucketErr, walked, fmap, fate, tpc, sig, cnt, nrecv, log>>

\* variant: the token is counted in the case and again after the select
UD_RecvDone_twice(s) ==
    /\ mode = "dir" /\ pc = "select"
    /\ s \in DOMAIN fmap /\ tpc[s] = "sendDone"
    /\ tpc' = [tpc EXCEPT ![s] = "end"]
    /\ sig' = [sig EXCEPT ![s] = "done"]
    /\ cnt' = cnt + 2
    /\ nrecv' = nrecv + 1
    /\ Goto("loopTest")
    /\ UNCHANGED <<args, bucketErr, walked, fmap, fate, log>>

\* case <-donec: ... cnt++ ; the sender's "donec <- struct{}{}" completes
UD_RecvDone(s) ==
    /\ mode = "dir" /\ pc = "select"
    /\ s \in DOMAIN fmap /\ tpc[s] = "sendDone"
    /\ tpc' = [tpc EXCEPT ![s] = "end"]
    /\ sig' = [sig EXCEPT ![s] = "done"]
    /\ cnt' = cnt + 1
    /\ nrecv' = nrecv + 1
    /\ Goto("loopTest")
    /\ UNCHANGED <<args, bucketErr, walked, fmap, fate, log>>

\* variant: the errors are taken in the order of the batch
UD_RecvErr_lowest(s) ==
    /\ mode = "dir" /\ pc = "select"
    /\ s \in DOMAIN fmap /\ tpc[s] = "sendErr"
    /\ \A t \in DOMAIN fmap : (fate[t] # "ok" /\ t < s) => sig[t] = "err"
    /\ tpc' = [tpc EXCEPT ![s] = "end"]
    /\ sig' = [sig EXCEPT ![s] = "err"]
    /\ nrecv' = nrecv + 1
    /\ Return(TaskErr(s))
    /\ UNCHANGED <<args, bucketErr, walked, fmap, fate, cnt, log>>

\* variant: the error case falls through to cnt++
UD_RecvErr_count(s) ==
    /\ mode = "dir" /\ pc = "select"
    /\ s \in DOMAIN fmap /\ tpc[s] = "sendErr"
    /\ tpc' = [tpc EXCEPT ![s] = "end"]
    /\ sig' = [sig EXCEPT ![s] = "err"]
    /\ cnt' = cnt + 1
    /\ nrecv' = nrecv + 1
    /\ Goto("loopTest")
    /\ UNCHANGED <<args, bucketErr, walked, fmap, fate, log>>

\* variant: the error is replaced by a summary error
UD_RecvErr_wrap(s) ==
    /\ mode = "dir" /\ pc = "select"
    /\ s \in DOMAIN fmap /\ tpc[s] = "sendErr"
    /\ tpc' = [tpc EXCEPT ![s] = "end"]
    /\ sig' = [sig EXCEPT ![s] = "err"]
    /\ nrecv' = nrecv + 1
    /\ Return(Err("fmt", <<"upload failed">>, 0))
    /\ UNCHANGED <<args, bucketErr, walked, fmap, fate, cnt, log>>

\* case err := <-errc: return err ; the sender's "errc <- err" completes
UD_RecvErr(s) ==
    /\ mode = "dir" /\ pc = "select"
    /\ s \in DOMAIN fmap /\ tpc[s] = "sendErr"
    /\ tpc' = [tpc EXCEPT ![s] = "end"]
    /\ sig' = [sig EXCEPT ![s] = "err"]
    /\ nrecv' = nrecv + 1
    /\ Return(TaskErr(s))
    /\ UNCHANGED <<args, bucketErr, walked, fmap, fate, cnt, log>>

\* ------------------------------------------------- the goroutine of a file
T_NewWriter(s) ==
    /\ s \in DOMAIN fmap /\ tpc[s] = "newWriter"
    /\ log' = [log EXCEPT ![s] = @ \o OpenEvents(TaskDst(s))]
    /\ tpc' = [tpc EXCEPT ![s] = "read"]
    /\ UNCHANGED <<args, pc, ret, admin, client, bucketErr, walked, fmap, fate,
                   sig, cnt, nrecv>>

\* variant: bts, _ := ioutil.ReadFile(src)
T_ReadFile_ignore(s) ==
    /\ s \in DOMAIN fmap /\ tpc[s] = "read"
    /\ log' = [log EXCEPT ![s] = Append(@, Ev("read", NoKey, fate[s] # "read"))]
    /\ tpc' = [tpc EXCEPT ![s] = "write"]
    /\ UNCHANGED <<args, pc, ret, admin, client, bucketErr, walked, fmap, fate,
                   sig, cnt, nrecv>>

T_ReadFile(s) ==
    /\ s \in DOMAIN fmap /\ tpc[s] = "read"
    /\ log' = [log EXCEPT ![s] = Append(@, Ev("read", NoKey, fate[s] # "read"))]
    /\ tpc' = [tpc EXCEPT ![s] = IF fate[s] = "read" THEN "sendErr" ELSE "write"]
    /\ UNCHANGED <<args, pc, ret, admin, client, bucketErr, walked, fmap, fate,
                   sig, cnt, nrecv>>

T_Write(s) ==
    /\ s \in DOMAIN fmap /\ tpc[s] = "write"
    /\ log' = [log EXCEPT ![s] = Append(@, Ev("write", TaskDst(s), fate[s] # "write"))]
    /\ tpc' = [tpc EXCEPT ![s] = IF fate[s] = "write" THEN "sendErr" ELSE "close"]
    /\ UNCHANGED <<args, pc, ret, admin, client, bucketErr, walked, fmap, fate,
                   sig, cnt, nrecv>>

\* variant: the channels are buffered, a send completes without a receiver
T_Close_buffered(s) ==
    /\ s \in DOMAIN fmap /\ tpc[s] = "close"
    /\ log' = [log EXCEPT ![s] = Append(@, Ev("close", TaskDst(s), fate[s] # "close"))]
    /\ tpc' = [tpc EXCEPT ![s] = "end"]
    /\ UNCHANGED <<args, pc, ret, admin, client, bucketErr, walked, fmap, fate,
                   sig, cnt, nrecv>>

T_Close(s) ==
    /\ s \in DOMAIN fmap /\ tpc[s] = "close"
    /\ log' = [log EXCEPT ![s] = Append(@, Ev("close", TaskDst(s), fate[s] # "close"))]
    /\ tpc' = [tpc EXCEPT ![s] = IF fate[s] = "close" THEN "sendErr" ELSE "sendDone"]
    /\ UNCHANGED <<args, pc, ret, admin, client, bucketErr, walked, fmap, fate,
                   sig, cnt, nrecv>>

Task(s) ==
    \/ T_NewWriter(s)
    \/ T_ReadFile(s)
    \/ T_Write(s)
    \/ T_Close(s)

Coordinator ==
    \/ UD_LoopTest
    \/ \E s \in Sources : UD_RecvDone(s)
    \/ \E s \in Sources : UD_RecvErr(s)

UploadDir ==
    \/ UD_Entry
    \/ UD_NewAdminClient
    \/ UD_CreateBucket
    \/ UD_NewClient
    \/ UD_Walk
    \/ \E s \in Sources : UD_Spawn(s)
    \/ UD_SpawnDone
    \/ Coordinator

Next ==
    \/ UploadFile
    \/ UploadDir
    \/ \E s \in Sources : Task(s)

Spec == Init /\ [][Next]_vars

\* goroutines that can run do run; a select with a ready case proceeds
FairSpec ==
    /\ Spec
    /\ WF_vars(UploadDir)
    /\ \A s \in Sources : WF_vars(Task(s))

\* ------------------------------------------------------- derived notions
RECURSIVE SumOver(_, _)
SumOver(S, f) ==
    IF S = {} THEN 0
    ELSE LET x == CHOOSE y \in S : TRUE IN f[x] + SumOver(S \ {x}, f)

\* number of stream writes issued to key k so far, over all uploads
WriteCount(k) ==
    SumOver(Sources,
            [s \in Sources |->
                Cardinality({i \in 1..Len(log[s]) :
                                log[s][i].op = "write" /\ log[s][i].key = k})])

Mapped(k) == \E s \in DOMAIN fmap : fmap[s] = k

Provisioned == bucketErr \in {Nil, ErrAlreadyOwned}

Failed(s) == s \in DOMAIN fmap /\ tpc[s] # "idle" /\ fate[s] # "ok"

\* ----------------------------------------------------------------- claims

\* C1: when provisioning, the walk and every step of every task succeed,
\* UploadDir returns nil, and at the return every key of the walker's mapping
\* has been written exactly once and no other key has been written; on the
\* way the coordinator never waits in its select with nobody left to send.
C1_AllSucceed ==
    /\ mode = "dir" /\ Provisioned /\ walked = "ok"
    /\ \A s \in DOMAIN fmap : fate[s] = "ok"

C1_ExactWrites ==
    (C1_AllSucceed /\ pc = "returned") =>
        /\ ret = Nil
        /\ \A k \in Keys : WriteCount(k) = IF Mapped(k) THEN 1 ELSE 0
        /\ SumOver(Keys, [k \in Keys |-> WriteCount(k)]) = num
        /\ \A s \in DOMAIN fmap :
              \A i \in 1..Len(log[s]) :
                 log[s][i].op = "write" => log[s][i].key = fmap[s]

C1_Theorem ==
    /\ C1_ExactWrites
    /\ (C1_AllSucceed /\ pc = "select") => \E s \in DOMAIN fmap : tpc[s] # "end"

C1_Witness ==
    /\ C1_AllSucceed /\ pc = "returned" /\ ret = Nil
    /\ num >= 2
    /\ \A s \in DOMAIN fmap : WriteCount(fmap[s]) = 1

\* C2: when exactly one task of the batch fails, UploadDir eventually returns
\* that task's error (the witness is a return taken while another task of the
\* batch has not finished).
C2_OnlyFailure(s) ==
    /\ mode = "dir" /\ pc \in {"loopTest", "select"}
    /\ s \in DOMAIN fmap /\ fate[s] # "ok"
    /\ \A t \in DOMAIN fmap \ {s} : fate[t] = "ok"

C2_Theorem ==
    \A s \in Sources : C2_OnlyFailure(s) ~> (pc = "returned" /\ ret = TaskErr(s))

C2_Witness ==
    /\ mode = "dir" /\ pc = "returned"
    /\ \E s \in DOMAIN fmap :
          /\ fate[s] # "ok" /\ ret = TaskErr(s)
          /\ \A t \in DOMAIN fmap \ {s} : fate[t] = "ok"
          /\ \E t \in DOMAIN fmap \ {s} : tpc[t] \in {"newWriter", "read", "write", "close"}

\* C3: for an empty batch UploadDir returns nil, never reaches its select,
\* performs no receive, starts no task and touches no stream.
C3_Theorem ==
    (mode = "dir" /\ walked = "ok" /\ fmap = EmptyMap) =>
        /\ pc \in {"spawn", "loopTest", "returned"}
        /\ nrecv = 0
        /\ \A s \in Sources : tpc[s] = "idle" /\ log[s] = <<>>
        /\ pc = "returned" => ret = Nil

C3_Witness ==
    /\ mode = "dir" /\ walked = "ok" /\ fmap = EmptyMap
    /\ pc = "returned" /\ ret = Nil /\ nrecv = 0

\* C4: UploadDir returns nil only when every task of the batch has delivered
\* its success token and the coordinator has counted all of them; no task has
\* failed in such a state.
C4_Theorem ==
    (mode = "dir" /\ pc = "returned" /\ ret = Nil) =>
        /\ walked = "ok"
        /\ cnt = num /\ nrecv = num
        /\ \A s \in DOMAIN fmap :
              sig[s] = "done" /\ tpc[s] = "end" /\ ~Failed(s)

C4_Witness ==
    /\ mode = "dir" /\ pc = "returned" /\ ret = Nil
    /\ num >= 2 /\ cnt = num
    /\ \A s \in DOMAIN fmap : sig[s] = "done"

\* C5: a UploadDir call that fails on its tasks receives exactly one error:
\* the returned value is the error of the one task whose error was received,
\* every earlier receive was a success token, and after the return the
\* coordinator receives nothing more and its result does not change.
C5_OneError ==
    /\ Cardinality({s \in Sources : sig[s] = "err"}) <= 1
    /\ (mode = "dir" /\ walked = "ok" /\ pc = "returned" /\ ret # Nil) =>
          /\ nrecv = cnt + 1
          /\ \E s \in DOMAIN fmap :
                sig[s] = "err" /\ Failed(s) /\ ret = TaskErr(s)

C5_NoLaterReceive ==
    pc = "returned" => (pc' = "returned" /\ nrecv' = nrecv /\ sig' = sig /\ ret' = ret)

C5_Theorem == [](C5_OneError) /\ [][C5_NoLaterReceive]_vars

C5_Witness ==
    /\ mode = "dir" /\ pc = "returned" /\ ret # Nil
    /\ \E s, t \in DOMAIN fmap :
          s # t /\ sig[s] = "err" /\ ret = TaskErr(s) /\ tpc[t] = "sendErr"

\* C6: when create-bucket fails with an error that is not the already-owned
\* one, the call has returned exactly that error and nothing else happened: no
\* storage client, no walk, no task, no stream operation.
C6_Theorem ==
    bucketErr \in {ErrNameTaken, ErrForbidden} =>
        /\ pc = "returned" /\ ret = bucketErr
        /\ client = "none" /\ walked = "none" /\ fmap = EmptyMap
        /\ \A s \in Sources : tpc[s] = "idle" /\ log[s] = <<>>

C6_Witness ==
    /\ mode = "dir" /\ bucketErr = ErrNameTaken
    /\ pc = "returned" /\ ret = ErrNameTaken

\* C7: the already-owned answer of create-bucket is never returned by
\* UploadDir, and the step that receives it leads to creating the storage
\* client with every other variable unchanged, which is the successor of the
\* step that receives no error.
C7_Accepted ==
    (mode = "dir" /\ pc = "createBucket" /\ bucketErr' \in {Nil, ErrAlreadyOwned}) =>
        /\ pc' = "newClient"
        /\ UNCHANGED <<args, ret, admin, client, walked, fmap, fate, tpc, sig,
                       cnt, nrecv, log>>

C7_Theorem == [](mode = "dir" => ret # ErrAlreadyOwned) /\ [][C7_Accepted]_vars

C7_Witness ==
    /\ mode = "dir" /\ bucketErr = ErrAlreadyOwned
    /\ pc = "returned" /\ ret = Nil /\ num >= 1
    /\ \A s \in DOMAIN fmap : sig[s] = "done"

\* C8: in UploadDir no task has started and no stream operation or read has
\* happened in a state where create-bucket has not completed successfully or
\* as already-owned.
C8_Theorem ==
    (mode = "dir" /\ \E s \in Sources : tpc[s] # "idle" \/ log[s] # <<>>) => Provisioned

C8_Witness ==
    /\ mode = "dir" /\ Provisioned
    /\ \E s \in DOMAIN fmap : tpc[s] = "write" /\ Len(log[s]) >= 2

\* C9: on every stream the content-type is never set when the option is
\* empty, and is set exactly once, right after the open and before any write,
\* when the option is given.
CtCount(s) == Cardinality({i \in 1..Len(log[s]) : log[s][i].op = "ct"})

C9_Theorem ==
    \A s \in Sources :
        log[s] # <<>> =>
            /\ log[s][1].op = "open"
            /\ contentType = "" => CtCount(s) = 0
            /\ contentType # "" =>
                  /\ CtCount(s) = 1
                  /\ \A i, j \in 1..Len(log[s]) :
                        (log[s][i].op = "ct" /\ log[s][j].op = "write") => i < j
                  /\ \A i \in 1..Len(log[s]) :
                        log[s][i].op = "ct" => log[s][i].key = log[s][1].key

C9_Witness ==
    /\ contentType # "" /\ mode = "dir" /\ num >= 2
    /\ \A s \in DOMAIN fmap :
          CtCount(s) = 1 /\ \E i \in 1..Len(log[s]) : log[s][i].op = "write"

\* C10: UploadFile attempts open, read, write, close in this order, each at
\* most once; a failed step is the last step, and its error is what the call
\* returned; nil is returned only after all four steps succeeded.
Steps(l) == SelectSeq(l, LAMBDA e : e.op # "ct")

FileOrder == <<"open", "read", "write", "close">>

C10_Theorem ==
    mode = "file" =>
        LET l == Steps(log[fsrc]) IN
        /\ Len(l) <= 4
        /\ \A i \in 1..Len(l) : l[i].op = FileOrder[i]
        /\ \A i \in 1..Len(l) :
              ~l[i].ok => /\ i = Len(l)
                          /\ pc = "returned"
                          /\ ret = StepErr(l[i].op, fsrc)
        /\ (pc = "returned" /\ ret = Nil) =>
              Len(l) = 4 /\ \A i \in 1..4 : l[i].ok
        /\ (pc = "returned" /\ ret.kind \in {"read", "write", "close"}) =>
              Len(l) >= 1 /\ l[Len(l)].op = ret.kind /\ ~l[Len(l)].ok
        /\ \A s \in Sources \ {fsrc} : log[s] = <<>>

C10_Witness ==
    /\ mode = "file" /\ pc = "returned" /\ ret = StepErr("read", fsrc)
    /\ Len(Steps(log[fsrc])) = 2
    /\ \A i \in 1..Len(log[fsrc]) : log[fsrc][i].op \notin {"write", "close"}

\* C11: when the walk fails, UploadDir has returned the walk's error, no
\* goroutine was started, no stream was opened and nothing went through the
\* done or error channel.
C11_Theorem ==
    walked = "err" =>
        /\ pc = "returned" /\ ret = ErrWalk
        /\ fmap = EmptyMap /\ nrecv = 0
        /\ \A s \in Sources : tpc[s] = "idle" /\ sig[s] = "none" /\ log[s] = <<>>

C11_Witness ==
    /\ mode = "dir" /\ walked = "err" /\ Provisioned /\ client = "closed"
    /\ pc = "returned" /\ ret = ErrWalk

\* a task whose send is pending: it is at "errc <- err" or "donec <- struct{}{}"
Sending(s) == tpc[s] \in {"sendErr", "sendDone"}

InFlight(s) == tpc[s] \in {"newWriter", "read", "write", "close"}

Consumed == {s \in Sources : sig[s] # "none"}

\* C12 as stated: once UploadDir has returned after a successful walk, the
\* signal of every task of the batch has been sent and consumed (nothing is
\* received after the return, so a signal not consumed by then never is).
C12_AllConsumed ==
    (mode = "dir" /\ walked = "ok" /\ pc = "returned") =>
        \A s \in DOMAIN fmap : sig[s] # "none"

\* C12 amended: each spawned task gets at most one signal through, a success
\* token exactly when all its steps succeeded and an error exactly when one
\* failed; a send completes only by a receive of the coordinator, so a task
\* has ended iff its signal was consumed; the coordinator consumes all N
\* signals when it returns nil, and cnt tokens plus the one error when it
\* returns an error; the signals of the other tasks are never consumed.
C12_AtMostOne ==
    /\ Consumed \subseteq DOMAIN fmap
    /\ Cardinality(Consumed) = nrecv
    /\ \A s \in Sources :
          /\ (tpc[s] = "end") <=> (sig[s] # "none")
          /\ sig[s] = "done" => (fate[s] = "ok" /\ \A i \in 1..Len(log[s]) : log[s][i].ok)
          /\ sig[s] = "err" => (fate[s] # "ok" /\ ~log[s][Len(log[s])].ok)
    /\ (mode = "dir" /\ pc = "returned" /\ ret = Nil) => Consumed = DOMAIN fmap
    /\ (mode = "dir" /\ walked = "ok" /\ pc = "returned" /\ ret # Nil) =>
          Cardinality(Consumed) = cnt + 1

C12_NeverLater == pc = "returned" => (sig' = sig /\ \A s \in Sources : Sending(s) => Sending(s)')

C12_Theorem == [](C12_AtMostOne) /\ [][C12_NeverLater]_vars

C12_Witness ==
    /\ mode = "dir" /\ pc = "returned" /\ ret # Nil
    /\ \E s, t \in DOMAIN fmap :
          /\ sig[s] = "err"
          /\ tpc[t] = "sendDone" /\ sig[t] = "none"

\* C13: after UploadDir has returned on an error, every task that was started
\* eventually reaches the end of its goroutine; none stays at its send.
C13_TasksEnd ==
    \A s \in Sources :
        (mode = "dir" /\ pc = "returned" /\ ret # Nil /\ tpc[s] # "idle") ~> (tpc[s] = "end")

\* C14: the storage client is never closed while a task of the call still has
\* its stream open, its write or its close ahead of it.
C14_ClientOpenWhileUsed ==
    client = "closed" => \A s \in DOMAIN fmap : ~InFlight(s)

\* C15: UploadDir starts one task per entry of the batch and none for anything
\* else; a started task is never started again; every entry has been started
\* before the coordinator can receive; and whenever the range loop still has
\* an entry to start, it can start it whatever the other tasks are doing.
C15_AllStarted ==
    mode = "dir" =>
        /\ \A s \in Sources \ DOMAIN fmap : tpc[s] = "idle"
        /\ (walked = "ok" /\ pc \in {"loopTest", "select", "returned"}) =>
              \A s \in DOMAIN fmap : tpc[s] # "idle"
        /\ nrecv > 0 => \A s \in DOMAIN fmap : tpc[s] # "idle"
        /\ pc = "spawn" =>
              \A s \in DOMAIN fmap : tpc[s] = "idle" => ENABLED UD_Spawn(s)

C15_StartedOnce ==
    \A s \in Sources :
        /\ tpc[s] # "idle" => tpc'[s] # "idle"
        /\ (tpc[s] # "newWriter" /\ tpc'[s] = "newWriter") => (tpc[s] = "idle" /\ pc = "spawn")

C15_Theorem == [](C15_AllStarted) /\ [][C15_StartedOnce]_vars

C15_Witness ==
    /\ mode = "dir" /\ num >= 2 /\ nrecv = 0
    /\ pc \in {"loopTest", "select"}
    /\ \A s \in DOMAIN fmap : InFlight(s)

\* C16: a UploadDir task attempts open, read, write, close in this order, each
\* at most once; a failed step is its last step and the task then sends that
\* step's error; it sends a success token only after all four steps succeeded.
C16_Theorem ==
    mode = "dir" =>
        \A s \in Sources :
            LET l == Steps(log[s]) IN
            /\ Len(l) <= 4
            /\ \A i \in 1..Len(l) : l[i].op = FileOrder[i]
            /\ \A i \in 1..Len(l) :
                  ~l[i].ok => /\ i = Len(l)
                              /\ tpc[s] = "sendErr" \/ sig[s] = "err"
                              /\ TaskErr(s) = StepErr(l[i].op, s)
            /\ (tpc[s] = "sendDone" \/ sig[s] = "done") =>
                  Len(l) = 4 /\ \A i \in 1..4 : l[i].ok
            /\ (tpc[s] = "sendErr" \/ sig[s] = "err") =>
                  Len(l) >= 2 /\ ~l[Len(l)].ok
            /\ sig[s] = "err" => ret = StepErr(l[Len(l)].op, s)

C16_Witness ==
    /\ mode = "dir"
    /\ \E s \in DOMAIN fmap :
          /\ tpc[s] = "sendErr" /\ fate[s] = "read"
          /\ Len(Steps(log[s])) = 2
          /\ \A i \in 1..Len(log[s]) : log[s][i].op \notin {"write", "close"}

\* C17: the select has no fixed order among the tasks: whenever the
\* coordinator is at its select, it can receive from any task whose send is
\* pending, and receiving an error returns the error of that very task.
C17_AnyOrder ==
    (mode = "dir" /\ pc = "select") =>
        \A s \in DOMAIN fmap :
            /\ tpc[s] = "sendErr" => ENABLED UD_RecvErr(s)
            /\ tpc[s] = "sendDone" => ENABLED UD_RecvDone(s)

C17_ReturnsThatOne ==
    \A s \in Sources :
        (sig[s] # "err" /\ sig'[s] = "err") => (pc' = "returned" /\ ret' = TaskErr(s))

C17_Theorem == [](C17_AnyOrder) /\ [][C17_ReturnsThatOne]_vars

C17_Witness ==
    /\ mode = "dir" /\ pc = "select" /\ num >= 2
    /\ \A s \in DOMAIN fmap : tpc[s] = "sendErr"

\* C18: under fair scheduling of the coordinator and of every goroutine, a
\* UploadDir call eventually returns, whatever the batch and whichever tasks
\* fail.
C18_Theorem == (mode = "dir") ~> (pc = "returned")

C18_Witness ==
    /\ mode = "dir" /\ pc = "returned" /\ ret # Nil
    /\ num >= 2 /\ nrecv = num
    /\ \A s \in DOMAIN fmap : tpc[s] = "end"

\* C19: when UploadDir returns nil, no task of the call is at work or at its
\* send, every stream of the batch was closed successfully before the
\* deferred Close of the clients ran; and in UploadDir cnt is always the
\* number of success tokens received so far and never exceeds the batch size.
Closed(s) == \E i \in 1..Len(log[s]) : log[s][i].op = "close" /\ log[s][i].ok

C19_Theorem ==
    mode = "dir" =>
        /\ cnt = Cardinality({s \in Sources : sig[s] = "done"})
        /\ cnt <= num
        /\ (pc = "returned" /\ ret = Nil) =>
              /\ \A s \in DOMAIN fmap : ~InFlight(s) /\ ~Sending(s) /\ Closed(s)
              /\ client = "closed" /\ admin = "closed"
        /\ (walked = "ok" /\ client = "closed" /\ ret = Nil) =>
              \A s \in DOMAIN fmap : Closed(s)

C19_Witness ==
    /\ mode = "dir" /\ pc = "returned" /\ ret = Nil
    /\ client = "closed" /\ admin = "closed"
    /\ num >= 2 /\ \A s \in DOMAIN fmap : Closed(s) /\ tpc[s] = "end"

TypeOK ==
    /\ mode \in {"file", "dir"}
    /\ pc \in {"entry", "newAdmin", "createBucket", "newClient", "newWriter", "read",
               "write", "close", "walk", "spawn", "loopTest", "select", "returned"}
    /\ admin \in {"none", "open", "closed"}
    /\ client \in {"none", "open", "closed"}
    /\ bucketErr \in CreateBucketResults \cup {NotCalled}
    /\ walked \in {"none", "ok", "err"}
    /\ DOMAIN fmap \subseteq Sources
    /\ fate \in [Sources -> Fates]
    /\ tpc \in [Sources -> {"idle", "newWriter", "read", "write", "close",
                            "sendErr", "sendDone", "end"}]
    /\ sig \in [Sources -> {"none", "done", "err"}]
    /\ cnt \in 0..MaxFiles
    /\ nrecv \in 0..MaxFiles

====
